---- MODULE Spec2Model ----
(***************************************************************************)
(* Model of the greedy test allocator of tests-helper:                     *)
(*   internal/worker   Allocator (NewAllocator, Distribute, GetWorker,     *)
(*                     GetStats)                                           *)
(*   internal/splitter Splitter (SortTests, Split)                         *)
(*                                                                         *)
(* A junit.Test is a record [Name, Time].  Time is a float64 in the code;  *)
(* the model uses exact integers (no rounding, no NaN/Inf), and exact      *)
(* rationals [num, den] for the one division the code performs.            *)
(* Worker indices are 0-based as in the Go code: the worker slice is a     *)
(* function with domain 0..len-1.                                          *)
(*                                                                         *)
(* The outer loop of Distribute is modelled one iteration per step, with   *)
(* pc/pos holding the position of the loop; nothing else runs while the    *)
(* loop is in progress (the program is single-threaded).                   *)
(***************************************************************************)
EXTENDS Integers, Sequences, FiniteSets, TLC

VARIABLES
    numWorkers,   \* the argument NewAllocator was called with
    workers,      \* Allocator.workers: 0..len-1 -> [Tests, Total]
    pc,           \* "idle" | "distribute" | "panic"
    tests,        \* the slice given to the Distribute call in progress
    pos,          \* number of elements of tests the loop has consumed
    minIdx,       \* Distribute's local minIdx in the last iteration
    calls,        \* Distribute calls made on this allocator: 0, 1, or 2 for two or more
    assigned,     \* items assigned on this allocator (all calls)
    viaSplit,     \* TRUE while the allocator holds just what Splitter.Split distributed
    splitTests,   \* the slice the caller gave to Split, in the caller's order
    ret,          \* value returned by the last GetWorker / GetStats call
    fcall,        \* a call of a pure function: its name, its input and its result
    rpc,          \* position of runSplit ("off" when it is not running)
    opts,         \* runSplit: the splitOptions, while they are still read
    cfg,          \* runSplit: the environment config.Load reads, while it is still read
    nodeTotal,    \* runSplit: local total
    nodeIndex,    \* runSplit: local index
    histTimes,    \* runSplit: local times
    stdout,       \* runSplit: the lines written to stdout
    rerr          \* runSplit: the error returned ("" for nil)

allocVars == <<numWorkers, workers, pc, tests, pos, minIdx, calls, assigned, viaSplit,
               splitTests, ret>>

runVars == <<rpc, opts, cfg, nodeTotal, nodeIndex, histTimes, stdout, rerr>>

vars == <<allocVars, fcall, runVars>>

----------------------------------------------------------------------------
(* Bounds *)

MaxWorkers == 5
MaxTests == 3
MaxLines == 2
MaxLineLen == 2
MaxVals == 3
MaxNode == 3
MaxStdin == 3
MaxSuites == 2
MaxPatterns == 2

(* Stand-in for math.MaxFloat64: larger than every Time of the model. *)
MaxFloat64 == 1000000

(* The tests callers pass.  Times 10 and 20 are the weights of the        *)
(* "more workers than tests" scenario; "a" and "c" tie; "z" has weight 0  *)
(* and "n" a negative weight (junit.Test.Time is an unconstrained float64 *)
(* and the JUnit parser accepts any parseable number).                    *)
Pool ==
    { [Name |-> "a", Time |-> 10],
      [Name |-> "b", Time |-> 20],
      [Name |-> "c", Time |-> 10],
      [Name |-> "z", Time |-> 0],
      [Name |-> "n", Time |-> -2] }

(* The "balanced distribution" scenario: weights 10, 8, 6, 4. *)
Balanced ==
    { [Name |-> "t1", Time |-> 10],
      [Name |-> "t2", Time |-> 8],
      [Name |-> "t3", Time |-> 6],
      [Name |-> "t4", Time |-> 4] }

AllTests == Pool \cup Balanced

SeqsUpTo(S, n) == UNION { [1..k -> S] : k \in 0..n }

(* Every sequence listing each element of the set S exactly once. *)
Orderings(S) ==
    { s \in [1..Cardinality(S) -> S] : \A x \in S : \E i \in DOMAIN s : s[i] = x }

Inputs == SeqsUpTo(Pool, MaxTests)

SplitInputs == Inputs \cup Orderings(Balanced)

----------------------------------------------------------------------------
(* Helpers *)

Len0(ws) == Cardinality(DOMAIN ws)

RECURSIVE SumTime(_)
SumTime(s) == IF s = <<>> THEN 0 ELSE s[1].Time + SumTime(Tail(s))

RECURSIVE SumTotal(_, _)
SumTotal(ws, n) == IF n = 0 THEN 0 ELSE ws[n - 1].Total + SumTotal(ws, n - 1)

Count(x, s) == Cardinality({ i \in DOMAIN s : s[i] = x })

RECURSIVE Gcd(_, _)
Gcd(a, b) == IF b = 0 THEN a ELSE Gcd(b, a % b)

Abs(a) == IF a < 0 THEN -a ELSE a

(* a / b on exact numbers, in lowest terms; 0/0 is NaN, written 0/0. *)
Ratio(a, b) ==
    IF b = 0 THEN [num |-> (IF a > 0 THEN 1 ELSE IF a < 0 THEN -1 ELSE 0), den |-> 0]
    ELSE LET g == Gcd(Abs(a), Abs(b))
             s == IF b < 0 THEN -1 ELSE 1
         IN  [num |-> s * (a \div g), den |-> s * (b \div g)]

----------------------------------------------------------------------------
(* internal/worker *)

NewAllocatorExtra(n) == [i \in 0..n |-> [Tests |-> <<>>, Total |-> 0]]

NewAllocator(n) == [i \in 0..(n - 1) |-> [Tests |-> <<>>, Total |-> 0]]

RECURSIVE FindMinFrom(_, _, _)
FindMinFrom(ws, i, m) ==
    IF i >= Len0(ws) THEN m
    ELSE FindMinFrom(ws, i + 1, IF ws[i].Total < ws[m].Total THEN i ELSE m)

RECURSIVE FindMaxFrom(_, _, _)
FindMaxFrom(ws, i, m) ==
    IF i >= Len0(ws) THEN m
    ELSE FindMaxFrom(ws, i + 1, IF ws[i].Total > ws[m].Total THEN i ELSE m)

RECURSIVE FindMinLastFrom(_, _, _)
FindMinLastFrom(ws, i, m) ==
    IF i >= Len0(ws) THEN m
    ELSE FindMinLastFrom(ws, i + 1, IF ws[i].Total <= ws[m].Total THEN i ELSE m)

FindMax(ws) == FindMaxFrom(ws, 1, 0)

FindMinLast(ws) == FindMinLastFrom(ws, 1, 0)

(* The inner loop of Distribute: minIdx := 0; for i := 1; i < len; i++ *)
FindMin(ws) == FindMinFrom(ws, 1, 0)

AssignOverwrite(ws, m, t) ==
    [ws EXCEPT ![m] = [Tests |-> <<t>>, Total |-> @.Total + t.Time]]

AssignPrepend(ws, m, t) ==
    [ws EXCEPT ![m] = [Tests |-> <<t>> \o @.Tests, Total |-> @.Total + t.Time]]

(* append(a.workers[minIdx].Tests, test); a.workers[minIdx].Total += test.Time *)
Assign(ws, m, t) ==
    [ws EXCEPT ![m] = [Tests |-> Append(@.Tests, t), Total |-> @.Total + t.Time]]

NilWorker == <<>>

GetWorkerOffByOne(ws, index) ==
    IF index < 0 \/ index > Len0(ws) THEN NilWorker ELSE <<index>>

(* A *Worker is nil, <<>>, or the address of a.workers[i], <<i>>. *)
GetWorkerOp(ws, index) ==
    IF index < 0 \/ index >= Len0(ws) THEN NilWorker ELSE <<index>>

RECURSIVE ScanTimes(_, _, _, _)
ScanTimes(ts, j, minTime, maxTime) ==
    IF j > Len(ts) THEN [min |-> minTime, max |-> maxTime]
    ELSE ScanTimes(ts, j + 1,
                   IF ts[j].Time < minTime THEN ts[j].Time ELSE minTime,
                   IF ts[j].Time > maxTime THEN ts[j].Time ELSE maxTime)

WorkerStats(ws, i) ==
    LET w == ws[i]
        scan == ScanTimes(w.Tests, 1, MaxFloat64, 0)
    IN  [ Index     |-> i,
          Total     |-> w.Total,
          TestCount |-> Len(w.Tests),
          MinTime   |-> IF Len(w.Tests) = 0 THEN 0 ELSE scan.min,
          MaxTime   |-> scan.max,
          TestTimes |-> [j \in 1..Len(w.Tests) |-> w.Tests[j].Time] ]

AvgTimeNonEmpty(ws, totalTime) ==
    Ratio(totalTime, Cardinality({ i \in DOMAIN ws : ws[i].Tests # <<>> }))

AvgTimeOf(ws, totalTime) == Ratio(totalTime, Len0(ws))

GetStatsOp(ws) ==
    LET totalTime == SumTotal(ws, Len0(ws))
    IN  [ TotalTime |-> totalTime,
          AvgTime   |-> AvgTimeOf(ws, totalTime),
          Workers   |-> [i \in DOMAIN ws |-> WorkerStats(ws, i)] ]

WorkersAfterGetStatsRecount(ws) ==
    [i \in DOMAIN ws |-> [ws[i] EXCEPT !.Total = @ + SumTime(ws[i].Tests)]]

(* What GetStats leaves in a.workers: "for i, w := range a.workers" copies *)
(* each Worker, and the loop writes only its locals and the fresh          *)
(* testTimes slice.                                                        *)
WorkersAfterGetStats(ws) == ws

----------------------------------------------------------------------------
(* internal/splitter *)

LessAscending(x, y) == x.Time < y.Time

(* less(i, j) of SortTests: tests[i].Time > tests[j].Time *)
Less(x, y) == x.Time > y.Time

RECURSIVE OrdersBy(_, _)
(* All arrangements of the elements of s at the indices in rest in which   *)
(* no element is placed before one that Less puts ahead of it.             *)
OrdersBy(s, rest) ==
    IF rest = {} THEN { <<>> }
    ELSE UNION { { <<s[i]>> \o r : r \in OrdersBy(s, rest \ {i}) } :
                 i \in { j \in rest : \A k \in rest : ~Less(s[k], s[j]) } }

(* sort.Slice is not stable: any ordering consistent with less may result. *)
SortTests(s) == OrdersBy(s, DOMAIN s)

(* Text is a sequence of characters; a test read from stdin has such a     *)
(* sequence as its Name.                                                   *)
Chars == { " ", "x" }

Lines == SeqsUpTo(Chars, MaxLineLen)

(* unicode.IsSpace, on the characters of the model *)
IsSpace(c) == c = " "

RECURSIVE TrimLeft(_)
TrimLeft(s) == IF s # <<>> /\ IsSpace(Head(s)) THEN TrimLeft(Tail(s)) ELSE s

RECURSIVE TrimRight(_)
TrimRight(s) ==
    IF s # <<>> /\ IsSpace(s[Len(s)]) THEN TrimRight(SubSeq(s, 1, Len(s) - 1)) ELSE s

TrimSpaceLeftOnly(s) == TrimLeft(s)

(* strings.TrimSpace *)
TrimSpace(s) == TrimRight(TrimLeft(s))

DefaultTestTime == 1

(* times[name]: reading a Go map gives the zero value for an absent key. *)
Lookup(m, k) == IF k \in DOMAIN m THEN m[k] ELSE 0

TimeOrDefaultKeepZero(t) == t

(* if time == 0 { time = DefaultTestTime } *)
TimeOrDefault(t) == IF t = 0 THEN DefaultTestTime ELSE t

RECURSIVE ReadLines(_, _, _)
(* The scanner loop of ReadTests over the lines the scanner delivers. *)
ReadLines(lines, tm, acc) ==
    IF lines = <<>> THEN acc
    ELSE LET name == TrimSpace(Head(lines))
         IN  ReadLines(Tail(lines), tm,
                       IF name = <<>> THEN acc
                       ELSE Append(acc, [Name |-> name,
                                         Time |-> TimeOrDefault(Lookup(tm, name))]))

ReadTestsAllowEmpty(r, tm) ==
    LET ts == ReadLines(r.lines, tm, <<>>)
    IN  IF r.fail THEN [tests |-> <<>>, err |-> "error reading tests"]
        ELSE [tests |-> ts, err |-> ""]

(* Splitter.ReadTests.  The reader r is the lines its scanner delivers and *)
(* whether scanner.Err() is then non-nil (a read error, or a line longer   *)
(* than the scanner's buffer).  A nil slice is <<>>, a nil error is "".     *)
ReadTestsOp(r, tm) ==
    LET ts == ReadLines(r.lines, tm, <<>>)
    IN  IF r.fail THEN [tests |-> <<>>, err |-> "error reading tests"]
        ELSE IF Len(ts) = 0 THEN [tests |-> <<>>, err |-> "no tests provided"]
        ELSE [tests |-> ts, err |-> ""]

----------------------------------------------------------------------------
(* internal/splitter: PercentileCalculator *)

Range(s) == { s[i] : i \in DOMAIN s }

EmptyMap == [x \in {} |-> 0]

RECURSIVE InsertAscending(_, _)
InsertAscending(x, s) ==
    IF s = <<>> THEN <<x>>
    ELSE IF x <= Head(s) THEN <<x>> \o s
    ELSE <<Head(s)>> \o InsertAscending(x, Tail(s))

RECURSIVE SortFloat64s(_)
(* sort.Float64s: the values in ascending order *)
SortFloat64s(s) == IF s = <<>> THEN <<>> ELSE InsertAscending(Head(s), SortFloat64s(Tail(s)))

PercentageDivisor == 100

InterpolateLower(sorted, posNum) ==
    LET i == posNum \div PercentageDivisor
    IN  IF i >= Len(sorted) - 1 THEN Ratio(sorted[Len(sorted)], 1)
        ELSE Ratio(sorted[i + 1], 1)

(* interpolate(sorted, pos) for pos = posNum / PercentageDivisor, exactly. *)
(* sorted[k] of the 0-based Go slice is sorted[k + 1] here.                *)
Interpolate(sorted, posNum) ==
    LET i == posNum \div PercentageDivisor
        fracNum == posNum - i * PercentageDivisor
    IN  IF i >= Len(sorted) - 1 THEN Ratio(sorted[Len(sorted)], 1)
        ELSE Ratio(sorted[i + 1] * (PercentageDivisor - fracNum) + sorted[i + 2] * fracNum,
                   PercentageDivisor)

TimesAfterCalculateSorted(ts) == SortFloat64s(ts)

(* The caller's slice after Calculate: sorted is a copy, times is only read. *)
TimesAfterCalculate(ts) == ts

EmptyResultsZeros(percentiles) == [p \in Range(percentiles) |-> Ratio(0, 1)]

(* if len(times) == 0 { return make(map[int]float64) } *)
EmptyResults(percentiles) == EmptyMap

(* PercentileCalculator.Calculate: a map from each requested rank to its value *)
CalculateOp(ts, percentiles) ==
    IF Len(ts) = 0 THEN EmptyResults(percentiles)
    ELSE LET sorted == SortFloat64s(ts)
         IN  [p \in Range(percentiles) |-> Interpolate(sorted, p * (Len(sorted) - 1))]

----------------------------------------------------------------------------
(* internal/splitter: StatsReporter.  A log line is a record of its kind   *)
(* and the values formatted into it.                                       *)

SummaryPercentiles == << 50, 75, 95, 99, 100 >>

(* for _, p := range percentiles { r.logger.Info(..., label, results[p]) } *)
PercentileLines(results, percentiles) ==
    [k \in DOMAIN percentiles |->
        [kind |-> "percentile", p |-> percentiles[k], value |-> results[percentiles[k]]]]

(* printWorkerPercentiles: sorts a copy of the times, asks the calculator  *)
(* for the fixed ranks and logs one line for each.                         *)
PrintWorkerPercentilesOp(times) ==
    PercentileLines(CalculateOp(SortFloat64s(times), SummaryPercentiles), SummaryPercentiles)

ShowAlways(showPercentiles, ws) == Len(ws.TestTimes) > 0

(* if showPercentiles && len(ws.TestTimes) > 0 *)
ShowFor(showPercentiles, ws) == showPercentiles /\ Len(ws.TestTimes) > 0

(* The body of PrintSummary's loop for one WorkerStats. *)
WorkerSummary(ws, showPercentiles) ==
    IF ws.TestCount = 0
    THEN << [kind |-> "empty", worker |-> ws.Index] >>
    ELSE << [kind |-> "worker", worker |-> ws.Index, total |-> ws.Total,
             count |-> ws.TestCount, min |-> ws.MinTime, max |-> ws.MaxTime] >>
         \o (IF ShowFor(showPercentiles, ws)
             THEN PrintWorkerPercentilesOp(ws.TestTimes)
             ELSE << >>)

RECURSIVE WorkerSummaries(_, _, _)
WorkerSummaries(stats, showPercentiles, n) ==
    IF n = 0 THEN << >>
    ELSE WorkerSummaries(stats, showPercentiles, n - 1)
         \o WorkerSummary(stats.Workers[n - 1], showPercentiles)

(* PrintSummary(stats, showPercentiles): the lines it logs, in order. *)
PrintSummaryOp(stats, showPercentiles) ==
    << [kind |-> "header"],
       [kind |-> "totals", total |-> stats.TotalTime, avg |-> stats.AvgTime] >>
    \o WorkerSummaries(stats, showPercentiles, Len0(stats.Workers))

----------------------------------------------------------------------------
(* internal/config *)

(* An environment variable: unset, set to an integer, or set to text that  *)
(* is no integer.                                                          *)
EnvUnset == [set |-> FALSE, ok |-> TRUE, val |-> 0]

EnvInt(v) == [set |-> TRUE, ok |-> TRUE, val |-> v]

EnvBad == [set |-> TRUE, ok |-> FALSE, val |-> 0]

EnvDefault == -1

(* A field tagged env:"..." envDefault:"-1" *)
LoadField(v) == IF v.set THEN v.val ELSE EnvDefault

(* config.Load *)
LoadOp(env) ==
    IF ~env.index.ok \/ ~env.total.ok
    THEN [err |-> "failed to parse environment variables",
          cfg |-> [CircleNodeIndex |-> 0, CircleNodeTotal |-> 0]]
    ELSE [err |-> "",
          cfg |-> [CircleNodeIndex |-> LoadField(env.index),
                   CircleNodeTotal |-> LoadField(env.total)]]

GetNodeIndexPositiveFlag(c, flagValue, defaultValue) ==
    IF flagValue > 0 THEN flagValue
    ELSE IF c.CircleNodeIndex >= 0 THEN c.CircleNodeIndex
    ELSE defaultValue

(* Config.GetNodeIndex *)
GetNodeIndexOp(c, flagValue, defaultValue) ==
    IF flagValue >= 0 THEN flagValue
    ELSE IF c.CircleNodeIndex >= 0 THEN c.CircleNodeIndex
    ELSE defaultValue

(* Config.GetNodeTotal *)
GetNodeTotalOp(c, flagValue, defaultValue) ==
    IF flagValue >= 0 THEN flagValue
    ELSE IF c.CircleNodeTotal >= 0 THEN c.CircleNodeTotal
    ELSE defaultValue

----------------------------------------------------------------------------
(* internal/junit: Parser *)

(* A <testsuite> element as xml.Unmarshal delivers it: the file attribute  *)
(* is a sequence of characters, the time attribute one of the strings      *)
(* below, an absent attribute is empty.                                    *)
TestSuite(file, time, nested) == [File |-> file, Time |-> time, TestSuites |-> nested]

KeepComma(s) == s

(* strings.ReplaceAll(suite.Time, ",", "."), on the time strings of the    *)
(* model: "1,0" is the only one holding a comma.                           *)
ReplaceComma(s) == IF s = "1,0" THEN "1.0" ELSE s

(* strconv.ParseFloat(timeStr, 64), on the time strings of the model *)
ParseFloat(s) ==
    CASE s = "0" -> [ok |-> TRUE, val |-> 0]
      [] s = "2" -> [ok |-> TRUE, val |-> 2]
      [] s = "3" -> [ok |-> TRUE, val |-> 3]
      [] s = "5" -> [ok |-> TRUE, val |-> 5]
      [] s = "-2" -> [ok |-> TRUE, val |-> -2]
      [] s = "1.0" -> [ok |-> TRUE, val |-> 1]
      [] OTHER -> [ok |-> FALSE, val |-> 0]

MapSet(m, k, v) == IF k \in DOMAIN m THEN [m EXCEPT ![k] = v] ELSE m @@ (k :> v)

(* times[k] += v *)
MapAdd(m, k, v) == IF k \in DOMAIN m THEN [m EXCEPT ![k] = @ + v] ELSE m @@ (k :> v)

NestedOfParsed(suite, parsed) == IF parsed THEN suite.TestSuites ELSE <<>>

(* The suites accumulateTimes recurses into after a record, whether or not *)
(* the record itself was accumulated.                                      *)
NestedOf(suite, parsed) == suite.TestSuites

RECURSIVE AccumulateTimes(_, _)
(* Parser.accumulateTimes(suites, times, count); acc is times and *count *)
AccumulateTimes(suites, acc) ==
    IF suites = <<>> THEN acc
    ELSE LET suite == Head(suites)
             r == ParseFloat(ReplaceComma(suite.Time))
             parsed == suite.File # <<>> /\ suite.Time # "" /\ r.ok
             own == IF parsed
                    THEN [times |-> MapAdd(acc.times, suite.File, r.val),
                          count |-> acc.count + 1]
                    ELSE acc
         IN  AccumulateTimes(Tail(suites), AccumulateTimes(NestedOf(suite, parsed), own))

(* A matched path: a file os.ReadFile cannot read, one xml.Unmarshal       *)
(* rejects, or a <testsuites> document.                                    *)
Unreadable == [kind |-> "unreadable", suites |-> <<>>]

BadXML == [kind |-> "badxml", suites |-> <<>>]

Document(suites) == [kind |-> "ok", suites |-> suites]

(* Parser.loadFile(path, times) *)
LoadFile(file, times) ==
    IF file.kind = "unreadable" THEN [times |-> times, err |-> "cannot read file"]
    ELSE IF file.kind = "badxml" THEN [times |-> times, err |-> "cannot parse XML"]
    ELSE [times |-> AccumulateTimes(file.suites, [times |-> times, count |-> 0]).times,
          err |-> ""]

(* filepath.Glob(pattern): an error for a malformed pattern, else the      *)
(* files it matches.                                                       *)
BadPattern == [bad |-> TRUE, matches |-> <<>>]

Matches(files) == [bad |-> FALSE, matches |-> files]

RECURSIVE ExpandPatterns(_)
(* The glob loop of LoadFiles: files = append(files, matches...) *)
ExpandPatterns(patterns) ==
    IF patterns = <<>> THEN <<>>
    ELSE (IF Head(patterns).bad THEN <<>> ELSE Head(patterns).matches)
             \o ExpandPatterns(Tail(patterns))

RECURSIVE LoadEach(_, _)
(* for _, file := range files: a file that fails is logged and skipped *)
LoadEach(files, times) ==
    IF files = <<>> THEN times
    ELSE LoadEach(Tail(files), LoadFile(Head(files), times).times)

NoFileLoaded(files) == \A k \in DOMAIN files : files[k].kind # "ok"

(* if len(files) == 0 *)
NoFileMatched(files) == Len(files) = 0

(* Parser.LoadFiles(patterns) *)
LoadFilesOp(patterns) ==
    LET files == ExpandPatterns(patterns)
    IN  IF NoFileMatched(files)
        THEN [times |-> EmptyMap, err |-> "no files matched the provided patterns"]
        ELSE [times |-> LoadEach(files, EmptyMap), err |-> ""]

----------------------------------------------------------------------------
(* State machine *)

NoRet == [op |-> "none", arg |-> 0, val |-> <<>>, nth |-> 0]

(* No pure function is being called. *)
NoCall == [fn |-> "none", in |-> <<>>, out |-> <<>>, done |-> FALSE]

(* runSplit is not running. *)
RunOff ==
    /\ rpc = "off"
    /\ opts = <<>>
    /\ cfg = <<>>
    /\ nodeTotal = 0
    /\ nodeIndex = 0
    /\ histTimes = <<>>
    /\ stdout = <<>>
    /\ rerr = ""

(* A freshly built allocator of n workers on which nothing was called. *)
FreshAllocator(n) ==
    /\ numWorkers = n
    /\ workers = NewAllocator(n)
    /\ pc = "idle"
    /\ tests = <<>>
    /\ pos = 0
    /\ minIdx = 0
    /\ calls = 0
    /\ assigned = 0
    /\ viaSplit = FALSE
    /\ splitTests = <<>>
    /\ ret = NoRet

Init ==
    /\ \E n \in 0..MaxWorkers : FreshAllocator(n)
    /\ fcall = NoCall
    /\ RunOff

(* The caller invokes a.Distribute(ts). *)
Distribute ==
    /\ pc = "idle"
    /\ \E ts \in Inputs :
         /\ assigned + Len(ts) <= MaxTests
         /\ tests' = ts
    /\ pos' = 0
    /\ pc' = "distribute"
    /\ calls' = IF calls = 0 THEN 1 ELSE 2
    /\ ret' = NoRet
    /\ viaSplit' = FALSE
    /\ splitTests' = <<>>
    /\ UNCHANGED <<numWorkers, workers, minIdx, assigned>>
    /\ UNCHANGED <<fcall, runVars>>

(* One iteration of "for _, test := range tests". *)
DistributeIter ==
    /\ pc = "distribute"
    /\ pos < Len(tests)
    /\ LET test == tests[pos + 1]
           m == FindMin(workers)
       IN  /\ minIdx' = m
           /\ IF m \in DOMAIN workers
              THEN /\ workers' = Assign(workers, m, test)
                   /\ pos' = pos + 1
                   /\ assigned' = assigned + 1
                   /\ pc' = pc
              ELSE \* a.workers[0] on an empty slice: index out of range
                   /\ pc' = "panic"
                   /\ UNCHANGED <<workers, pos, assigned>>
    /\ UNCHANGED <<numWorkers, tests, calls, viaSplit, splitTests, ret>>
    /\ UNCHANGED <<fcall, runVars>>

(* The range loop is exhausted; Distribute returns and its frame is gone. *)
DistributeReturn ==
    /\ pc = "distribute"
    /\ pos = Len(tests)
    /\ pc' = "idle"
    /\ tests' = <<>>
    /\ pos' = 0
    /\ minIdx' = 0
    /\ UNCHANGED <<numWorkers, workers, calls, assigned, viaSplit, splitTests, ret>>
    /\ UNCHANGED <<fcall, runVars>>

GetWorker ==
    /\ pc = "idle"
    /\ \E index \in -1..(Len0(workers) + 1) :
         ret' = [op |-> "GetWorker", arg |-> index, val |-> GetWorkerOp(workers, index),
                 nth |-> 1]
    /\ UNCHANGED <<numWorkers, workers, pc, tests, pos, minIdx, calls, assigned, viaSplit,
                   splitTests>>
    /\ UNCHANGED <<fcall, runVars>>

(* ret.nth tells a first GetStats call (1) from one that directly follows *)
(* another GetStats call (2).                                              *)
GetStats ==
    /\ pc = "idle"
    /\ ret' = [op |-> "GetStats", arg |-> 0, val |-> GetStatsOp(workers),
               nth |-> IF ret.op = "GetStats" THEN 2 ELSE 1]
    /\ workers' = WorkersAfterGetStats(workers)
    /\ UNCHANGED <<numWorkers, pc, tests, pos, minIdx, calls, assigned, viaSplit,
                   splitTests>>
    /\ UNCHANGED <<fcall, runVars>>

(* Splitter.Split(ts, n): SortTests, NewAllocator, then Distribute, whose   *)
(* loop runs through DistributeIter / DistributeReturn.  Split builds its   *)
(* own allocator and reads nothing of an earlier one, so it is taken from   *)
(* the start of the program only.                                           *)
SplitCall(ts, n) ==
    /\ splitTests' = ts
    /\ tests' \in SortTests(ts)
    /\ numWorkers' = n
    /\ workers' = NewAllocator(n)
    /\ pos' = 0
    /\ minIdx' = 0
    /\ pc' = "distribute"
    /\ calls' = 1
    /\ assigned' = 0
    /\ viaSplit' = TRUE
    /\ ret' = NoRet

Split ==
    /\ pc = "idle"
    /\ calls = 0
    /\ ret = NoRet
    /\ \E ts \in SplitInputs, n \in 0..MaxWorkers : SplitCall(ts, n)
    /\ UNCHANGED <<fcall, runVars>>

Next ==
    \/ Distribute
    \/ DistributeIter
    \/ DistributeReturn
    \/ GetWorker
    \/ GetStats
    \/ Split

Spec == Init /\ [][Next]_vars

----------------------------------------------------------------------------
(* The pure functions: ReadTests, Calculate, GetNodeIndex, GetNodeTotal *)

NameX == << "x" >>

NameSpX == << " ", "x" >>

NameXX == << "x", "x" >>

NameXXX == << "x", "x", "x" >>

(* Historical mappings: "x" has no record, a record of 0, a positive or a  *)
(* negative one; the key " x" is never a trimmed name.                     *)
TimesMaps ==
    { (NameSpX :> 7) } \cup { (NameX :> v) @@ (NameSpX :> 7) : v \in { 0, 5, -2 } }

Readers == [lines : SeqsUpTo(Lines, MaxLines), fail : BOOLEAN]

PctValues == { 3, 10, 20 }

RankLists == { <<>>, << 50 >>, << 0, 50, 100 >>, << 50, 75, 95, 99, 100 >> }

(* Value sequences given to Calculate: all short ones, and two of the      *)
(* package's test cases, one of them also out of order.                    *)
CalcInputs ==
    SeqsUpTo(PctValues, MaxVals)
    \cup { << 1, 2, 3, 4, 5 >>, << 4, 1, 5, 3, 2 >>, << 10, 20 >> }

NodeValues == -2..MaxNode

EnvVars == { EnvUnset, EnvBad } \cup { EnvInt(v) : v \in NodeValues }

(* file and time attributes of the records: a plain number, text that is   *)
(* no number, an empty time, an empty file, a decimal comma, a negative.   *)
Attrs ==
    { [File |-> NameX, Time |-> "3"],
      [File |-> NameX, Time |-> "abc"],
      [File |-> NameX, Time |-> ""],
      [File |-> <<>>, Time |-> "3"],
      [File |-> NameXX, Time |-> "1,0"],
      [File |-> NameXX, Time |-> "-2"] }

(* What a record may hold nested in it: nothing, one suite, two suites, or *)
(* an unparseable suite that holds a further one.                          *)
NestedLists ==
    { <<>>,
      << TestSuite(NameX, "2", <<>>) >>,
      << TestSuite(NameXX, "3", <<>>), TestSuite(NameX, "abc", <<>>) >>,
      << TestSuite(NameX, "abc", << TestSuite(NameX, "5", <<>>) >>) >> }

Suites == { TestSuite(a.File, a.Time, n) : a \in Attrs, n \in NestedLists }

DocA ==
    Document(<< TestSuite(NameX, "3", <<>>),
                TestSuite(NameXX, "1,0", << TestSuite(NameX, "2", <<>>) >>) >>)

DocB ==
    Document(<< TestSuite(NameX, "abc", << TestSuite(NameXX, "3", <<>>) >>),
                TestSuite(<<>>, "5", <<>>),
                TestSuite(NameX, "", <<>>) >>)

DocTie ==
    Document(<< TestSuite(NameX, "5", << TestSuite(NameXXX, "5", <<>>) >>),
                TestSuite(NameXX, "3", <<>>) >>)

DocZero == Document(<< TestSuite(NameX, "0", <<>>), TestSuite(NameXX, "2", <<>>) >>)

DocNegative == Document(<< TestSuite(NameX, "-2", <<>>) >>)

Files == { Unreadable, BadXML, DocA, DocB, DocTie, DocZero, DocNegative }

(* What a --stats pattern can expand to *)
GlobOutcomes ==
    { BadPattern, Matches(<<>>) }
    \cup { Matches(<< f >>) : f \in Files }
    \cup { Matches(<< DocA, BadXML, DocB >>), Matches(<< DocA, DocA >>) }

Call(fn, in) == [fn |-> fn, in |-> in, out |-> <<>>, done |-> FALSE]

PureCalls ==
    { Call("ReadTests", x) : x \in [r : Readers, times : TimesMaps] }
    \cup { Call("Calculate", x) :
             x \in [times : CalcInputs, percentiles : RankLists] }
    \cup { Call(fn, x) :
             fn \in { "GetNodeIndex", "GetNodeTotal" },
             x \in [env : [index : EnvVars, total : EnvVars],
                    flagValue : NodeValues, defaultValue : { 0, 1, 5 }] }
    \cup { Call("accumulateTimes", x) :
             x \in [suites : SeqsUpTo(Suites, MaxSuites),
                    times : { EmptyMap, (NameX :> 5) }] }
    \cup { Call("LoadFiles", x) : x \in [patterns : SeqsUpTo(GlobOutcomes, MaxPatterns)] }

InitPure ==
    /\ fcall \in PureCalls
    /\ FreshAllocator(0)
    /\ RunOff

Return(out) ==
    /\ fcall' = [fcall EXCEPT !.out = out, !.done = TRUE]
    /\ UNCHANGED <<allocVars, runVars>>

ReadTests ==
    /\ fcall.fn = "ReadTests"
    /\ ~fcall.done
    /\ Return(ReadTestsOp(fcall.in.r, fcall.in.times))

Calculate ==
    /\ fcall.fn = "Calculate"
    /\ ~fcall.done
    /\ fcall' = [fcall EXCEPT !.in.times = TimesAfterCalculate(@),
                              !.out = CalculateOp(fcall.in.times, fcall.in.percentiles),
                              !.done = TRUE]
    /\ UNCHANGED <<allocVars, runVars>>

(* config.Load, then cfg.GetNodeIndex(flagValue, defaultValue) *)
GetNodeIndex ==
    /\ fcall.fn = "GetNodeIndex"
    /\ ~fcall.done
    /\ LET l == LoadOp(fcall.in.env)
       IN  Return([err |-> l.err,
                   cfg |-> l.cfg,
                   val |-> IF l.err # "" THEN 0
                           ELSE GetNodeIndexOp(l.cfg, fcall.in.flagValue, fcall.in.defaultValue)])

(* config.Load, then cfg.GetNodeTotal(flagValue, defaultValue) *)
GetNodeTotal ==
    /\ fcall.fn = "GetNodeTotal"
    /\ ~fcall.done
    /\ LET l == LoadOp(fcall.in.env)
       IN  Return([err |-> l.err,
                   cfg |-> l.cfg,
                   val |-> IF l.err # "" THEN 0
                           ELSE GetNodeTotalOp(l.cfg, fcall.in.flagValue, fcall.in.defaultValue)])

(* p.accumulateTimes(suites, times, &count) with count = 0 *)
Accumulate ==
    /\ fcall.fn = "accumulateTimes"
    /\ ~fcall.done
    /\ Return(AccumulateTimes(fcall.in.suites, [times |-> fcall.in.times, count |-> 0]))

LoadFiles ==
    /\ fcall.fn = "LoadFiles"
    /\ ~fcall.done
    /\ Return(LoadFilesOp(fcall.in.patterns))

NextPure ==
    \/ ReadTests
    \/ Calculate
    \/ GetNodeIndex
    \/ GetNodeTotal
    \/ Accumulate
    \/ LoadFiles

SpecPure == InitPure /\ [][NextPure]_vars

----------------------------------------------------------------------------
(* cmd: runSplit(logger, opts, stdin, stdout), one statement group per step *)

(* What the --stats pattern of a run can expand to: a malformed pattern,   *)
(* no match, files that cannot be loaded, documents whose records tie, are *)
(* 0 or negative, and a bad file followed by a good one.                   *)
RunGlobs ==
    { BadPattern,
      Matches(<<>>),
      Matches(<< BadXML >>),
      Matches(<< Unreadable >>),
      Matches(<< DocTie >>),
      Matches(<< DocZero >>),
      Matches(<< DocNegative >>),
      Matches(<< BadXML, DocTie >>) }

StdinLines == { <<>>, << " " >>, NameX, << " ", "x", " " >>, NameXX, NameXXX }

StdinReaders == [lines : SeqsUpTo(StdinLines, MaxStdin), fail : BOOLEAN]

(* len(opts.statsFiles) is 0 or 1; debugFlag sets the logger's level only. *)
SplitOptions ==
    [indexFlag : NodeValues, totalFlag : NodeValues, statsFiles : 0..1,
     noPercentiles : BOOLEAN]

InitRun ==
    /\ FreshAllocator(0)
    /\ fcall = NoCall
    /\ rpc = "start"
    /\ opts \in SplitOptions
    /\ cfg = <<>>
    /\ nodeTotal = 0
    /\ nodeIndex = 0
    /\ histTimes = <<>>
    /\ stdout = <<>>
    /\ rerr = ""

(* return fmt.Errorf(msg, ...) *)
RunFail(msg) ==
    /\ rpc' = "error"
    /\ rerr' = msg

(* cfg, err := config.Load() *)
RunLoad ==
    /\ rpc = "start"
    /\ \E env \in [index : EnvVars, total : EnvVars] :
         LET l == LoadOp(env)
         IN  IF l.err # ""
             THEN RunFail("failed to load configuration") /\ UNCHANGED cfg
             ELSE /\ cfg' = l.cfg
                  /\ rpc' = "resolve"
                  /\ UNCHANGED rerr
    /\ UNCHANGED <<allocVars, fcall, opts, nodeTotal, nodeIndex, histTimes, stdout>>

InvalidIndexAboveTotal(index, total) == index < 0 \/ index > total

InvalidIndexNegative(index, total) == index < 0

(* if index < 0 || index >= total *)
InvalidIndex(index, total) == index < 0 \/ index >= total

(* total, index are resolved and validated.  When runSplit goes on, the    *)
(* flags and cfg are not read again and the model drops them.              *)
RunResolve ==
    /\ rpc = "resolve"
    /\ nodeTotal' = GetNodeTotalOp(cfg, opts.totalFlag, 1)
    /\ nodeIndex' = GetNodeIndexOp(cfg, opts.indexFlag, 0)
    /\ IF InvalidIndex(nodeIndex', nodeTotal')
       THEN RunFail("invalid node index") /\ UNCHANGED <<opts, cfg>>
       ELSE /\ rpc' = "stats"
            /\ opts' = [statsFiles |-> opts.statsFiles,
                         noPercentiles |-> opts.noPercentiles]
            /\ cfg' = <<>>
            /\ UNCHANGED rerr
    /\ UNCHANGED <<allocVars, fcall, histTimes, stdout>>

TimesAsReturned(l) == l.times

(* if err != nil { times = make(map[string]float64) } *)
TimesOrEmpty(l) == IF l.err # "" THEN EmptyMap ELSE l.times

(* times, err = parser.LoadFiles(opts.statsFiles), or an empty map when no *)
(* --stats was given; fcall holds the LoadFiles call until ReadTests is    *)
(* called.                                                                 *)
RunLoadStats ==
    /\ rpc = "stats"
    /\ IF opts.statsFiles > 0
       THEN \E g \in RunGlobs :
              LET l == LoadFilesOp(<< g >>)
              IN  /\ fcall' = [fn |-> "LoadFiles", in |-> [patterns |-> << g >>],
                               out |-> l, done |-> TRUE]
                  /\ histTimes' = TimesOrEmpty(l)
       ELSE /\ histTimes' = EmptyMap
            /\ UNCHANGED fcall
    /\ rpc' = "read"
    /\ UNCHANGED <<allocVars, opts, cfg, nodeTotal, nodeIndex, stdout, rerr>>

(* tests, err := testSplitter.ReadTests(stdin, times); fcall holds the     *)
(* call and its result until Split takes the tests.                        *)
RunRead ==
    /\ rpc = "read"
    /\ \E r \in StdinReaders :
         LET res == ReadTestsOp(r, histTimes)
         IN  /\ fcall' = [fn |-> "ReadTests", in |-> [r |-> r, times |-> histTimes],
                          out |-> res, done |-> TRUE]
             /\ IF res.err # ""
                THEN RunFail("failed to read tests")
                ELSE rpc' = "split" /\ UNCHANGED rerr
    /\ UNCHANGED <<allocVars, opts, cfg, nodeTotal, nodeIndex, histTimes, stdout>>

(* allocator := testSplitter.Split(tests, total); the Distribute loop runs *)
(* through DistributeIter and DistributeReturn.                            *)
RunSplit ==
    /\ rpc = "split"
    /\ SplitCall(fcall.out.tests, nodeTotal)
    /\ fcall' = NoCall
    /\ rpc' = "report"
    /\ UNCHANGED <<opts, cfg, nodeTotal, nodeIndex, histTimes, stdout, rerr>>

(* reporter.PrintSummary(stats, !opts.noPercentiles) *)
ShowPercentiles(o) == ~o.noPercentiles

(* stats := allocator.GetStats(); reporter.PrintSummary(stats, ...): fcall *)
(* holds the PrintSummary call and the lines it logged.                    *)
(* PrintWorkerDetails logs at debug level and changes nothing.             *)
RunReport ==
    /\ rpc = "report"
    /\ pc = "idle"
    /\ ret' = [op |-> "GetStats", arg |-> 0, val |-> GetStatsOp(workers), nth |-> 1]
    /\ workers' = WorkersAfterGetStats(workers)
    /\ fcall' = [fn |-> "PrintSummary",
                 in |-> [stats |-> GetStatsOp(workers),
                         showPercentiles |-> ShowPercentiles(opts)],
                 out |-> PrintSummaryOp(GetStatsOp(workers), ShowPercentiles(opts)),
                 done |-> TRUE]
    /\ rpc' = "print"
    /\ UNCHANGED <<numWorkers, pc, tests, pos, minIdx, calls, assigned, viaSplit,
                   splitTests>>
    /\ UNCHANGED <<opts, cfg, nodeTotal, nodeIndex, histTimes, stdout, rerr>>

PrintedReversed(ts) == [k \in DOMAIN ts |-> ts[Len(ts) + 1 - k].Name]

(* for _, test := range worker.Tests { fmt.Fprintln(stdout, test.Name) }:  *)
(* the lines written                                                       *)
Printed(ts) == [k \in DOMAIN ts |-> ts[k].Name]

(* worker := allocator.GetWorker(index); its tests go to stdout. *)
RunPrint ==
    /\ rpc = "print"
    /\ LET worker == GetWorkerOp(workers, nodeIndex)
       IN  /\ ret' = [op |-> "GetWorker", arg |-> nodeIndex, val |-> worker, nth |-> 1]
           /\ IF worker = NilWorker
              THEN RunFail("failed to get worker") /\ UNCHANGED stdout
              ELSE /\ stdout' = stdout \o Printed(workers[worker[1]].Tests)
                   /\ rpc' = "done"
                   /\ UNCHANGED rerr
    /\ UNCHANGED <<numWorkers, workers, pc, tests, pos, minIdx, calls, assigned, viaSplit,
                   splitTests>>
    /\ UNCHANGED <<fcall, opts, cfg, nodeTotal, nodeIndex, histTimes>>

NextRun ==
    \/ RunLoad
    \/ RunResolve
    \/ RunLoadStats
    \/ RunRead
    \/ RunSplit
    \/ DistributeIter
    \/ DistributeReturn
    \/ RunReport
    \/ RunPrint

SpecRun == InitRun /\ [][NextRun]_vars

----------------------------------------------------------------------------
(* Properties *)

Held(i) == workers[i].Tests

NonEmpty == { i \in DOMAIN workers : Held(i) # <<>> }

RECURSIVE HeldCount(_, _)
(* Occurrences of x in the item sequences of workers 0..n-1. *)
HeldCount(x, n) ==
    IF n = 0 THEN 0 ELSE Count(x, Held(n - 1)) + HeldCount(x, n - 1)

RECURSIVE TotalsUpTo(_)
TotalsUpTo(n) == IF n = 0 THEN 0 ELSE workers[n - 1].Total + TotalsUpTo(n - 1)

(* Distribute has consumed its whole argument and is about to return. *)
AtReturn == pc = "distribute" /\ pos = Len(tests)

(* The first Distribute call on this allocator is about to return. *)
FirstCallDone == AtReturn /\ calls = 1

(* Worker i is the one an assignment step hands its item to. *)
Receives(i) ==
    /\ pc = "distribute"
    /\ i \in DOMAIN workers'
    /\ Len(workers'[i].Tests) > Len(workers[i].Tests)

(* The workers i whose Total is minimal in ws. *)
Minimal(ws) == { i \in DOMAIN ws : \A j \in DOMAIN ws : ws[i].Total <= ws[j].Total }

RECURSIVE Greedy(_, _, _)
(* The allocation of the first k items of ts over n empty workers in which *)
(* each item goes to the lowest-indexed worker of minimal Total.           *)
Greedy(n, ts, k) ==
    IF k = 0 THEN [i \in 0..(n - 1) |-> [Tests |-> <<>>, Total |-> 0]]
    ELSE LET ws == Greedy(n, ts, k - 1)
             m == CHOOSE i \in Minimal(ws) : \A j \in Minimal(ws) : i <= j
         IN  [ws EXCEPT ![m].Tests = Append(@, ts[k]),
                        ![m].Total = @ + ts[k].Time]

(* C1: Conservation.  After Distribute(items) on a fresh allocator with    *)
(* workerCount >= 1, the workers together hold exactly the multiset of the *)
(* input items (none lost, none duplicated) and the sum of the workers'    *)
(* Total equals the sum of the items' Time.                                *)
C1_Conservation ==
    (FirstCallDone /\ numWorkers >= 1) =>
        /\ \A x \in AllTests : HeldCount(x, numWorkers) = Count(x, tests)
        /\ \A i \in DOMAIN workers : \A k \in DOMAIN Held(i) : Held(i)[k] \in AllTests
        /\ TotalsUpTo(numWorkers) = SumTime(tests)

C1_Witness ==
    /\ FirstCallDone
    /\ numWorkers >= 2
    /\ Len(tests) = 3
    /\ \E x \in Pool : Count(x, tests) = 2
    /\ Cardinality(NonEmpty) >= 2

(* C2: Greedy minimality step.  At every single assignment made by         *)
(* Distribute, the Total the receiving worker had just before the          *)
(* assignment is <= the pre-assignment Total of every other worker.        *)
C2_GreedyStep ==
    [][ \A i \in DOMAIN workers :
          Receives(i) => \A j \in DOMAIN workers : workers[i].Total <= workers[j].Total ]_vars

C2_Witness ==
    /\ pc = "distribute"
    /\ numWorkers >= 3
    /\ pos = 3
    /\ minIdx = 2
    /\ workers[0].Total > 0
    /\ workers[1].Total > workers[0].Total

(* C3: Tie-break.  When several workers share the minimal Total at the     *)
(* moment an item is assigned, the item goes to the one with the lowest    *)
(* index; the allocation is thereby a function of (workerCount, items):    *)
(* it is the allocation Greedy(workerCount, items, _) determines.          *)
C3_TieBreak ==
    /\ [][ \A i \in DOMAIN workers :
             Receives(i) =>
                 /\ i \in Minimal(workers)
                 /\ \A j \in Minimal(workers) : i <= j ]_vars
    /\ []( (calls = 1 /\ numWorkers >= 1 /\ pc = "distribute") =>
               workers = Greedy(numWorkers, tests, pos) )

C3_Witness ==
    /\ pc = "distribute"
    /\ numWorkers = 2
    /\ pos = 3
    /\ minIdx = 0
    /\ Len(Held(0)) = 2
    /\ Len(Held(1)) = 1
    /\ workers[1].Total > 0
    /\ workers[1].Total = workers[0].Total - Held(0)[2].Time

T(name, time) == [Name |-> name, Time |-> time]

IsDescending(s) == \A i \in 1..(Len(s) - 1) : s[i].Time >= s[i + 1].Time

IsPermutationOf(s, t) ==
    /\ Len(s) = Len(t)
    /\ \A x \in AllTests : Count(x, s) = Count(x, t)

(* Split's own Distribute call is in progress. *)
InSplit == viaSplit /\ pc = "distribute"

(* Split has returned its allocator and nothing was distributed since. *)
AfterSplit == viaSplit /\ pc = "idle"

IsBalancedInput == Len(splitTests) = 4 /\ { splitTests[k] : k \in 1..4 } = Balanced

(* C4: Split(tests, n) orders the tests by non-increasing Time and then    *)
(* allocates greedily in that order, whatever order the caller supplied;   *)
(* weights 10, 8, 6, 4 in any input order over 2 workers end as totals 14  *)
(* and 14 (10+4 and 8+6).                                                  *)
C4_SplitSortsThenAllocates ==
    /\ InSplit =>
           /\ IsPermutationOf(tests, splitTests)
           /\ IsDescending(tests)
           /\ numWorkers >= 1 => workers = Greedy(numWorkers, tests, pos)
    /\ ((AfterSplit \/ (InSplit /\ AtReturn)) /\ numWorkers = 2 /\ IsBalancedInput) =>
           /\ workers[0].Total = 14
           /\ workers[1].Total = 14
           /\ Held(0) = << T("t1", 10), T("t4", 4) >>
           /\ Held(1) = << T("t2", 8), T("t3", 6) >>

C4_Witness ==
    /\ AfterSplit
    /\ numWorkers = 2
    /\ splitTests = << T("t4", 4), T("t2", 8), T("t1", 10), T("t3", 6) >>
    /\ workers[0].Total = 14
    /\ workers[1].Total = 14

(* C5: GetWorker(index) returns nil for every index < 0 and every index >= *)
(* workerCount (index = -1 and index = workerCount included) and, for      *)
(* every index in [0, workerCount), the allocator's own worker at that     *)
(* index; it never panics and never fabricates a worker.                   *)
C5_GetWorker ==
    ret.op = "GetWorker" =>
        /\ pc = "idle"
        /\ (ret.arg < 0 \/ ret.arg >= numWorkers) => ret.val = NilWorker
        /\ (0 <= ret.arg /\ ret.arg < numWorkers) =>
               /\ ret.val = << ret.arg >>
               /\ ret.val[1] \in DOMAIN workers

C5_Witness ==
    /\ ret.op = "GetWorker"
    /\ numWorkers >= 1
    /\ assigned >= 1
    /\ ret.arg = numWorkers
    /\ ret.val = NilWorker

(* C6: an allocator built by NewAllocator(workerCount) has exactly         *)
(* workerCount workers, all empty with Total 0 at construction, and still  *)
(* exactly workerCount workers after any sequence of Distribute, GetWorker *)
(* and GetStats calls.                                                     *)
C6_WorkerCountFixed ==
    /\ DOMAIN workers = 0..(numWorkers - 1)
    /\ Len0(workers) = numWorkers
    /\ assigned = 0 => \A i \in DOMAIN workers : Held(i) = <<>> /\ workers[i].Total = 0

C6_Witness ==
    /\ numWorkers >= 3
    /\ calls = 2
    /\ assigned = MaxTests
    /\ ret.op = "GetStats"
    /\ Len0(workers) = numWorkers

AllPositive(ts) == \A k \in DOMAIN ts : ts[k].Time > 0

(* C7: more workers than items.  When Distribute is given n items with     *)
(* positive weights and workerCount > n, exactly n workers end non-empty   *)
(* (one item each) and the other workerCount - n end with no items and     *)
(* Total 0, without error; {a,10},{b,20} over 5 workers give 2 non-empty   *)
(* workers (weights 10 and 20) and 3 empty ones.                           *)
C7_MoreWorkersThanItems ==
    (calls = 1 /\ pc # "idle" /\ numWorkers > Len(tests) /\ AllPositive(tests)) =>
        /\ pc # "panic"
        /\ AtReturn =>
               /\ Cardinality(NonEmpty) = Len(tests)
               /\ \A i \in NonEmpty : Len(Held(i)) = 1
               /\ Cardinality(DOMAIN workers \ NonEmpty) = numWorkers - Len(tests)
               /\ \A i \in DOMAIN workers \ NonEmpty : workers[i].Total = 0
               /\ \A k \in DOMAIN tests :
                      \E i \in NonEmpty : Held(i) = << tests[k] >> /\ workers[i].Total = tests[k].Time

C7_Witness ==
    /\ FirstCallDone
    /\ numWorkers = 5
    /\ tests = << T("a", 10), T("b", 20) >>
    /\ Cardinality(NonEmpty) = 2
    /\ Cardinality(DOMAIN workers \ NonEmpty) = 3

(* C8: with workerCount = 1 Distribute assigns every item to worker 0 and  *)
(* worker 0's item sequence equals the input sequence in input order.      *)
C8_SingleWorker ==
    (calls = 1 /\ pc # "idle" /\ numWorkers = 1) =>
        /\ pc # "panic"
        /\ Held(0) = SubSeq(tests, 1, pos)
        /\ AtReturn => Held(0) = tests

C8_Witness ==
    /\ FirstCallDone
    /\ numWorkers = 1
    /\ Len(tests) = 3
    /\ tests[1].Time < tests[2].Time
    /\ tests[3].Time < tests[2].Time
    /\ Held(0) = tests

(* C9: GetStats returns TotalTime = the sum of all workers' Total, AvgTime *)
(* = TotalTime divided by workerCount, and one Stats entry per worker in   *)
(* index order (Workers[i].Index = i, Workers[i].Total = worker i's        *)
(* Total).                                                                 *)
C9_GetStatsTotals ==
    (ret.op = "GetStats" /\ numWorkers >= 1) =>
        /\ ret.val.TotalTime = TotalsUpTo(numWorkers)
        /\ ret.val.AvgTime.den > 0
        /\ ret.val.AvgTime.num * numWorkers = ret.val.TotalTime * ret.val.AvgTime.den
        /\ DOMAIN ret.val.Workers = 0..(numWorkers - 1)
        /\ \A i \in DOMAIN ret.val.Workers :
               /\ ret.val.Workers[i].Index = i
               /\ ret.val.Workers[i].Total = workers[i].Total

C9_Witness ==
    /\ ret.op = "GetStats"
    /\ numWorkers = 3
    /\ ret.val.TotalTime = 40
    /\ ret.val.AvgTime = [num |-> 40, den |-> 3]
    /\ ret.val.Workers[2].Total = 0

MinOf(S) == CHOOSE x \in S : \A y \in S : x <= y

MaxOf(S) == CHOOSE x \in S : \A y \in S : x >= y

Weights(i) == [k \in 1..Len(Held(i)) |-> Held(i)[k].Time]

WeightSet(i) == { Held(i)[k].Time : k \in 1..Len(Held(i)) }

(* C10: per-worker statistics.  For every worker GetStats reports          *)
(* TestCount = the length of its item sequence, TestTimes = its items'     *)
(* weights in assignment order, MinTime = the minimum and MaxTime = the    *)
(* maximum of those weights; for a worker with no items MinTime = MaxTime  *)
(* = 0 and TestTimes is empty; with 3 workers and no items TotalTime = 0,  *)
(* AvgTime = 0, every TestCount = 0 and every MinTime = 0.                 *)
C10_PerWorkerStats ==
    ret.op = "GetStats" =>
        /\ \A i \in DOMAIN workers :
               LET st == ret.val.Workers[i]
               IN  /\ st.TestCount = Len(Held(i))
                   /\ st.TestTimes = Weights(i)
                   /\ Held(i) # <<>> =>
                          /\ st.MinTime = MinOf(WeightSet(i))
                          /\ st.MaxTime = MaxOf(WeightSet(i))
                   /\ Held(i) = <<>> =>
                          /\ st.MinTime = 0
                          /\ st.MaxTime = 0
                          /\ st.TestTimes = <<>>
        /\ (numWorkers = 3 /\ assigned = 0) =>
               /\ ret.val.TotalTime = 0
               /\ ret.val.AvgTime = [num |-> 0, den |-> 1]
               /\ \A i \in 0..2 :
                      ret.val.Workers[i].TestCount = 0 /\ ret.val.Workers[i].MinTime = 0

(* C11: statistics are idempotent and non-mutating.  GetStats leaves every *)
(* worker's item sequence and Total unchanged, and two consecutive         *)
(* GetStats calls with no Distribute in between return identical           *)
(* Distribution values.                                                    *)
C11_GetStatsIdempotent ==
    [][ ret'.op = "GetStats" =>
            /\ workers' = workers
            /\ ret.op = "GetStats" => ret'.val = ret.val ]_vars

C11_Witness ==
    /\ ret.op = "GetStats"
    /\ ret.nth = 2
    /\ numWorkers = 2
    /\ Len(Held(0)) = 2
    /\ Held(0)[1].Time > Held(0)[2].Time
    /\ ret.val.Workers[0].TestTimes = Weights(0)

----------------------------------------------------------------------------
(* Properties of ReadTests *)

ReadDone == fcall.fn = "ReadTests" /\ fcall.done

NonBlank(l) == \E i \in DOMAIN l : ~IsSpace(l[i])

(* The line without its leading and trailing whitespace *)
Stripped(l) ==
    LET ns == { i \in DOMAIN l : ~IsSpace(l[i]) }
    IN  SubSeq(l, MinOf(ns), MaxOf(ns))

Recorded(tm, name) == name \in DOMAIN tm /\ tm[name] # 0

(* C12: default weight.  ReadTests gives each identifier the weight        *)
(* recorded for it in the historical mapping, except that an identifier    *)
(* with no record, or with a recorded weight of exactly 0, gets the        *)
(* default weight 1.0; no item returned by ReadTests has weight 0.         *)
C12_DefaultWeight ==
    ReadDone =>
        \A k \in DOMAIN fcall.out.tests :
            LET t == fcall.out.tests[k]
                tm == fcall.in.times
            IN  /\ Recorded(tm, t.Name) => t.Time = tm[t.Name]
                /\ ~Recorded(tm, t.Name) => t.Time = 1
                /\ t.Time # 0

C12_Witness ==
    /\ ReadDone
    /\ NameX \in DOMAIN fcall.in.times
    /\ fcall.in.times[NameX] = 0
    /\ fcall.out.tests = << [Name |-> NameX, Time |-> 1] >>

C15_PositiveWeights ==
    ReadDone => \A k \in DOMAIN fcall.out.tests : fcall.out.tests[k].Time > 0

----------------------------------------------------------------------------
(* Properties of PercentileCalculator.Calculate *)

CalcDone == fcall.fn = "Calculate" /\ fcall.done

(* C16: percentile boundary laws.  Calculate on an empty value sequence    *)
(* returns an empty mapping for any requested ranks (no ranks computed,    *)
(* not zeros); Calculate on a single value v returns a mapping with        *)
(* exactly the requested ranks, each mapped to v.                          *)
C16_PercentileBoundary ==
    CalcDone =>
        /\ fcall.in.times = <<>> => DOMAIN fcall.out = {}
        /\ Len(fcall.in.times) = 1 =>
               /\ DOMAIN fcall.out = Range(fcall.in.percentiles)
               /\ \A p \in DOMAIN fcall.out :
                      fcall.out[p] = [num |-> fcall.in.times[1], den |-> 1]

C16_Witness ==
    /\ CalcDone
    /\ fcall.in.times = << 10 >>
    /\ fcall.in.percentiles = << 0, 50, 100 >>
    /\ DOMAIN fcall.out = { 0, 50, 100 }
    /\ fcall.out[50] = [num |-> 10, den |-> 1]

----------------------------------------------------------------------------
(* Properties of the configuration *)

NodeDone == fcall.fn \in { "GetNodeIndex", "GetNodeTotal" } /\ fcall.done

(* The environment variable and the loaded field the called getter reads *)
EnvRead == IF fcall.fn = "GetNodeIndex" THEN fcall.in.env.index ELSE fcall.in.env.total

FieldRead ==
    IF fcall.fn = "GetNodeIndex" THEN fcall.out.cfg.CircleNodeIndex
    ELSE fcall.out.cfg.CircleNodeTotal

(* C17: configuration precedence.  GetNodeIndex(flag, default) and         *)
(* GetNodeTotal(flag, default) return the flag value when it is >= 0 (a    *)
(* flag of 0 is valid and wins), otherwise the CIRCLE_NODE_INDEX /         *)
(* CIRCLE_NODE_TOTAL environment value when that is >= 0, otherwise the    *)
(* default; an unset environment variable loads as -1.                     *)
C17_Precedence ==
    (NodeDone /\ fcall.out.err = "") =>
        /\ ~EnvRead.set => FieldRead = -1
        /\ EnvRead.set => FieldRead = EnvRead.val
        /\ fcall.in.flagValue >= 0 => fcall.out.val = fcall.in.flagValue
        /\ (fcall.in.flagValue < 0 /\ FieldRead >= 0) => fcall.out.val = FieldRead
        /\ (fcall.in.flagValue < 0 /\ FieldRead < 0) => fcall.out.val = fcall.in.defaultValue

C17_Witness ==
    /\ NodeDone
    /\ fcall.fn = "GetNodeIndex"
    /\ fcall.in.flagValue = 0
    /\ fcall.in.env.index = EnvInt(2)
    /\ fcall.in.env.total = EnvUnset
    /\ fcall.out.cfg.CircleNodeTotal = -1
    /\ fcall.out.val = 0

----------------------------------------------------------------------------
(* Properties of runSplit *)

AnyNonBlank(ls) == \E k \in DOMAIN ls : NonBlank(ls[k])

(* runSplit has returned the error of ReadTests, with no allocator built   *)
(* and nothing written.                                                    *)
ReadFailed ==
    /\ rpc = "error"
    /\ rerr = "failed to read tests"
    /\ ~viaSplit
    /\ workers = NewAllocator(0)
    /\ stdout = <<>>

(* C14: an empty test list is a fatal input error.  ReadTests returns an   *)
(* error (and no items) when the input contains no line that is non-blank  *)
(* after trimming (empty input or whitespace-only input), and runSplit     *)
(* then returns an error without allocating or printing any test;          *)
(* ReadTests returns no error when at least one non-blank line exists.     *)
C14_EmptyInputFatal ==
    ReadDone =>
        /\ ~AnyNonBlank(fcall.in.r.lines) =>
               /\ fcall.out.err # ""
               /\ fcall.out.tests = <<>>
               /\ ReadFailed
        /\ AnyNonBlank(fcall.in.r.lines) => fcall.out.err = ""

(* C14, amended: as above, but ReadTests returns no error when at least    *)
(* one non-blank line exists and the scanner read the input without an     *)
(* error; when scanner.Err() is non-nil ReadTests returns that error and   *)
(* no items whatever the lines were, and runSplit fails the same way.      *)
C14_EmptyInputFatalRead ==
    ReadDone =>
        /\ ~AnyNonBlank(fcall.in.r.lines) =>
               /\ fcall.out.err # ""
               /\ fcall.out.tests = <<>>
               /\ ReadFailed
        /\ (AnyNonBlank(fcall.in.r.lines) /\ ~fcall.in.r.fail) =>
               /\ fcall.out.err = ""
               /\ rpc = "split"
        /\ fcall.in.r.fail =>
               /\ fcall.out.err = "error reading tests"
               /\ fcall.out.tests = <<>>
               /\ ReadFailed

C14_Witness ==
    /\ ReadDone
    /\ fcall.in.r.lines = << << " " >>, <<>> >>
    /\ ~fcall.in.r.fail
    /\ fcall.out.err = "no tests provided"
    /\ ReadFailed

Prefer(flagValue, envValue, defaultValue) ==
    IF flagValue >= 0 THEN flagValue
    ELSE IF envValue >= 0 THEN envValue
    ELSE defaultValue

(* C18: index validation.  runSplit returns an error, before reading any   *)
(* test or allocating, whenever the resolved worker index is negative or   *)
(* is >= the resolved total (index equal to total included), and proceeds  *)
(* when 0 <= index < total.                                                *)
C18_IndexValidation ==
    [][ /\ rpc = "resolve" =>
             LET total == Prefer(opts.totalFlag, cfg.CircleNodeTotal, 1)
                 index == Prefer(opts.indexFlag, cfg.CircleNodeIndex, 0)
             IN  /\ fcall = NoCall /\ ~viaSplit /\ stdout = <<>>
                 /\ nodeTotal' = total
                 /\ nodeIndex' = index
                 /\ (index < 0 \/ index >= total) =>
                        /\ rpc' = "error"
                        /\ rerr' = "invalid node index"
                        /\ UNCHANGED <<allocVars, fcall, histTimes, stdout>>
                 /\ (0 <= index /\ index < total) =>
                        /\ rpc' = "stats"
                        /\ rerr' = ""
        /\ rpc = "error" => FALSE ]_vars

C18_Witness ==
    /\ rpc = "error"
    /\ rerr = "invalid node index"
    /\ opts.totalFlag = -1
    /\ cfg.CircleNodeTotal = 2
    /\ opts.indexFlag = 2
    /\ nodeIndex = 2
    /\ nodeTotal = 2
    /\ ~viaSplit
    /\ fcall = NoCall

(* C19: the orchestration layer guarantees workerCount >= 1.  For every    *)
(* combination of --total flag, --index flag, CIRCLE_NODE_TOTAL and        *)
(* CIRCLE_NODE_INDEX values (0 and negative ones included) runSplit        *)
(* constructs the allocator only with a total >= 1, so GetStats never      *)
(* divides by zero and Distribute never indexes an empty worker list.      *)
C19_WorkerCountPositive ==
    /\ viaSplit => numWorkers = nodeTotal /\ numWorkers >= 1
    /\ (rpc \notin { "start", "resolve" } /\ rerr # "failed to load configuration"
          /\ nodeTotal < 1) =>
           rpc = "error" /\ rerr = "invalid node index" /\ ~viaSplit
    /\ pc # "panic"
    /\ ret.op = "GetStats" => ret.val.AvgTime.den # 0

C19_Witness ==
    /\ rpc = "error"
    /\ rerr = "invalid node index"
    /\ opts.totalFlag = -2
    /\ cfg.CircleNodeTotal = 0
    /\ opts.indexFlag = -1
    /\ cfg.CircleNodeIndex = -1
    /\ nodeTotal = 0
    /\ nodeIndex = 0
    /\ ~viaSplit

(* C20: runSplit writes to stdout exactly the names of the tests assigned  *)
(* to the worker at the selected index, one per line, in that worker's     *)
(* assignment order, and nothing else; when the selected worker is empty   *)
(* (more workers than tests) it writes nothing and still succeeds.         *)
C20_StdoutIsSelectedWorker ==
    /\ rpc = "done" =>
           /\ rerr = ""
           /\ nodeIndex \in DOMAIN workers
           /\ Len(stdout) = Len(Held(nodeIndex))
           /\ \A k \in DOMAIN stdout : stdout[k] = Held(nodeIndex)[k].Name
    /\ rpc # "done" => stdout = <<>>
    /\ rerr # "failed to get worker"

C20_Witness ==
    /\ rpc = "done"
    /\ numWorkers = 2
    /\ nodeIndex = 0
    /\ stdout = << NameXXX, NameXX >>
    /\ Held(1) = << [Name |-> NameX, Time |-> 5] >>

----------------------------------------------------------------------------
(* Further properties of the allocator *)

RECURSIVE IsSubsequence(_, _)
(* s can be obtained from t by deleting elements *)
IsSubsequence(s, t) ==
    IF s = <<>> THEN TRUE
    ELSE IF t = <<>> THEN FALSE
    ELSE \/ Head(s) = Head(t) /\ IsSubsequence(Tail(s), Tail(t))
         \/ IsSubsequence(s, Tail(t))

IsPrefix(s, t) == Len(s) <= Len(t) /\ s = SubSeq(t, 1, Len(s))

(* C21: assignment order is preserved inside each worker.  Each worker's   *)
(* item sequence is a subsequence of the sequence passed to Distribute     *)
(* (items appear in the order they were assigned), and an item once        *)
(* appended is never moved, reordered or removed by later assignments:     *)
(* every step leaves each worker's sequence a prefix of its new one.       *)
C21_AssignmentOrder ==
    /\ []( (calls = 1 /\ pc = "distribute") =>
               \A i \in DOMAIN workers : IsSubsequence(Held(i), SubSeq(tests, 1, pos)) )
    /\ [][ \A i \in DOMAIN workers \cap DOMAIN workers' :
               IsPrefix(workers[i].Tests, workers'[i].Tests) ]_vars

C21_Witness ==
    /\ FirstCallDone
    /\ numWorkers = 2
    /\ tests = << T("a", 10), T("b", 20), T("c", 10) >>
    /\ Held(0) = << T("a", 10), T("c", 10) >>
    /\ Held(1) = << T("b", 20) >>

----------------------------------------------------------------------------
(* Further properties of PercentileCalculator.Calculate *)

(* The k-th smallest value of ts, k in 1..Len(ts), by counting *)
Kth(ts, k) ==
    CHOOSE v \in Range(ts) :
        /\ Cardinality({ j \in DOMAIN ts : ts[j] < v }) < k
        /\ k <= Cardinality({ j \in DOMAIN ts : ts[j] <= v })

(* The rational q equals a / b, b > 0 *)
RatioIs(q, a, b) == q.den > 0 /\ q.num * b = a * q.den

(* The value the interpolation rule gives for rank p over ts, times 100 *)
Blend100(ts, p) ==
    LET count == Len(ts)
        i == (p * (count - 1)) \div 100
        r == (p * (count - 1)) % 100
    IN  IF i >= count - 1 THEN 100 * Kth(ts, count)
        ELSE Kth(ts, i + 1) * (100 - r) + Kth(ts, i + 2) * r

Rearrangements(ts) ==
    { q \in [DOMAIN ts -> Range(ts)] :
        \A v \in Range(ts) :
            Cardinality({ j \in DOMAIN ts : q[j] = v })
                = Cardinality({ j \in DOMAIN ts : ts[j] = v }) }

(* C22: percentile interpolation.  For a non-empty value sequence of       *)
(* length count and a rank p in 0..100, Calculate returns, with position = *)
(* (p/100)*(count-1) over the ascending-sorted values and i =              *)
(* floor(position), the last (maximum) value when i >= count-1 and         *)
(* otherwise sorted[i]*(1-frac) + sorted[i+1]*frac with frac = position -  *)
(* i; so rank 0 gives the minimum, rank 100 the maximum, [1,2,3,4,5] gives *)
(* 3 at rank 50 and 5 at rank 100, and [10,20] gives 15 at rank 50.  The   *)
(* result does not depend on the order of the input values and the input   *)
(* sequence is not modified.                                               *)
C22_Interpolation ==
    /\ []( (CalcDone /\ fcall.in.times # <<>>) =>
             LET ts == fcall.in.times
                 out == fcall.out
             IN  /\ DOMAIN out = Range(fcall.in.percentiles)
                 /\ \A p \in DOMAIN out : RatioIs(out[p], Blend100(ts, p), 100)
                 /\ 0 \in DOMAIN out => RatioIs(out[0], MinOf(Range(ts)), 1)
                 /\ 100 \in DOMAIN out => RatioIs(out[100], MaxOf(Range(ts)), 1)
                 /\ (ts = << 1, 2, 3, 4, 5 >> /\ 50 \in DOMAIN out) =>
                        out[50] = [num |-> 3, den |-> 1]
                 /\ (ts = << 1, 2, 3, 4, 5 >> /\ 100 \in DOMAIN out) =>
                        out[100] = [num |-> 5, den |-> 1]
                 /\ (ts = << 10, 20 >> /\ 50 \in DOMAIN out) => out[50] = [num |-> 15, den |-> 1]
                 /\ \A q \in Rearrangements(ts) :
                        CalculateOp(q, fcall.in.percentiles) = out )
    /\ [][ (fcall.fn = "Calculate" /\ fcall'.done) => fcall'.in = fcall.in ]_vars

C22_Witness ==
    /\ CalcDone
    /\ fcall.in.times = << 20, 3, 10 >>
    /\ fcall.in.percentiles = << 50, 75, 95, 99, 100 >>
    /\ fcall.out[50] = [num |-> 10, den |-> 1]
    /\ fcall.out[75] = [num |-> 15, den |-> 1]
    /\ fcall.out[95] = [num |-> 19, den |-> 1]
    /\ fcall.out[99] = [num |-> 99, den |-> 5]
    /\ fcall.out[100] = [num |-> 20, den |-> 1]

----------------------------------------------------------------------------
(* Properties of the JUnit parser *)

AccDone == fcall.fn = "accumulateTimes" /\ fcall.done

LoadDone == fcall.fn = "LoadFiles" /\ fcall.done

RECURSIVE Flatten(_)
(* Every record of the suites, at every nesting level, once *)
Flatten(suites) ==
    IF suites = <<>> THEN <<>>
    ELSE << [File |-> Head(suites).File, Time |-> Head(suites).Time] >>
             \o Flatten(Head(suites).TestSuites)
             \o Flatten(Tail(suites))

(* The time strings that denote a number, and the number *)
Numeric(t) == t \in { "0", "2", "3", "5", "-2", "1,0" }

TimeValue(t) ==
    CASE t = "0" -> 0
      [] t = "2" -> 2
      [] t = "3" -> 3
      [] t = "5" -> 5
      [] t = "-2" -> -2
      [] t = "1,0" -> 1
      [] OTHER -> 0

Contributes(r) == r.File # <<>> /\ r.Time # "" /\ Numeric(r.Time)

RECURSIVE SumFor(_, _)
SumFor(recs, id) ==
    IF recs = <<>> THEN 0
    ELSE (IF Contributes(Head(recs)) /\ Head(recs).File = id
          THEN TimeValue(Head(recs).Time) ELSE 0)
         + SumFor(Tail(recs), id)

Ids(recs) == { recs[k].File : k \in { j \in DOMAIN recs : Contributes(recs[j]) } }

RECURSIVE RecordsOf(_)
(* The records of all readable, well-formed files of a list of matches *)
RecordsOf(files) ==
    IF files = <<>> THEN <<>>
    ELSE (IF Head(files).kind = "ok" THEN Flatten(Head(files).suites) ELSE <<>>)
         \o RecordsOf(Tail(files))

(* The mapping m is the mapping before plus the sums of recs *)
Accumulated(m, before, recs) ==
    /\ DOMAIN m = DOMAIN before \cup Ids(recs)
    /\ \A id \in DOMAIN m : m[id] = Lookup(before, id) + SumFor(recs, id)

(* C23: historical durations accumulate.  The mapping returned by          *)
(* LoadFiles gives, for each identifier, the sum of the parsed time values *)
(* of all test-suite records carrying that file identifier, across all     *)
(* matched files and across all nesting levels of test suites (a nested    *)
(* suite is visited exactly once); records with an empty file attribute or *)
(* empty time attribute contribute nothing.                                *)
C23_DurationsAccumulate ==
    /\ AccDone =>
           Accumulated(fcall.out.times, fcall.in.times, Flatten(fcall.in.suites))
    /\ LoadDone =>
           Accumulated(fcall.out.times, EmptyMap,
                       RecordsOf(ExpandPatterns(fcall.in.patterns)))

C23_Witness ==
    /\ LoadDone
    /\ fcall.in.patterns = << Matches(<< DocA, BadXML, DocB >>), Matches(<< DocTie >>) >>
    /\ fcall.out.err = ""
    /\ fcall.out.times = (NameX :> 10) @@ (NameXX :> 7) @@ (NameXXX :> 5)

RECURSIVE Prune(_)
(* The suites without the records that contribute nothing; the suites      *)
(* nested in a removed record take its place.                              *)
Prune(suites) ==
    IF suites = <<>> THEN <<>>
    ELSE LET h == Head(suites)
         IN  (IF Contributes([File |-> h.File, Time |-> h.Time])
              THEN << TestSuite(h.File, h.Time, Prune(h.TestSuites)) >>
              ELSE Prune(h.TestSuites))
             \o Prune(Tail(suites))

IsDocument(f) == f.kind = "ok"

Unparseable(r) == r.File # <<>> /\ r.Time # "" /\ ~Numeric(r.Time)

(* C24: skip and continue on bad records.  A test-suite record whose time  *)
(* value cannot be parsed as a number is dropped without changing the      *)
(* mapping, and every other record in the same file (including the dropped *)
(* record's nested suites) and in the other files is still accumulated; a  *)
(* file that cannot be read or parsed contributes nothing to the mapping   *)
(* and does not stop the remaining files from being loaded.                *)
C24_SkipAndContinue ==
    /\ AccDone =>
           LET recs == Flatten(fcall.in.suites)
               start == [times |-> fcall.in.times, count |-> 0]
           IN  /\ fcall.out = AccumulateTimes(Prune(fcall.in.suites), start)
               /\ fcall.out.count = Cardinality({ k \in DOMAIN recs : Contributes(recs[k]) })
               /\ (\A k \in DOMAIN recs : Unparseable(recs[k])) =>
                      fcall.out.times = fcall.in.times
    /\ LoadDone =>
           LET files == ExpandPatterns(fcall.in.patterns)
               docs == SelectSeq(files, IsDocument)
           IN  /\ fcall.out.times = LoadEach(docs, EmptyMap)
               /\ \A k \in DOMAIN docs :
                      \A id \in Ids(Flatten(docs[k].suites)) : id \in DOMAIN fcall.out.times
               /\ files # <<>> => fcall.out.err = ""

C24_Witness ==
    /\ AccDone
    /\ fcall.in.times = EmptyMap
    /\ fcall.in.suites =
           << TestSuite(NameX, "abc",
                        << TestSuite(NameX, "abc", << TestSuite(NameX, "5", <<>>) >>) >>),
              TestSuite(NameXX, "1,0", <<>>) >>
    /\ fcall.out.times = (NameX :> 5) @@ (NameXX :> 1)
    /\ fcall.out.count = 2

----------------------------------------------------------------------------
(* Balance properties of Distribute *)

(* C26: no starved worker.  When the number of items is at least           *)
(* workerCount and every weight is positive, after Distribute every worker *)
(* holds at least one item (the first workerCount items go to workers 0,   *)
(* 1, ..., workerCount-1 in that order).                                   *)
C26_NoStarvedWorker ==
    (calls = 1 /\ pc = "distribute" /\ numWorkers >= 1 /\ AllPositive(tests)) =>
        /\ \A k \in 1..pos :
               k <= numWorkers => Held(k - 1) # <<>> /\ Held(k - 1)[1] = tests[k]
        /\ (AtReturn /\ Len(tests) >= numWorkers) =>
               \A i \in DOMAIN workers : Held(i) # <<>>

C26_Witness ==
    /\ FirstCallDone
    /\ numWorkers = 3
    /\ tests = << T("a", 10), T("b", 20), T("c", 10) >>
    /\ Held(0) = << T("a", 10) >>
    /\ Held(1) = << T("b", 20) >>
    /\ Held(2) = << T("c", 10) >>

----------------------------------------------------------------------------
(* The summary report *)

(* PrintSummary has been called by runSplit; fcall holds what it logged. *)
SummaryDone == fcall.fn = "PrintSummary" /\ fcall.done

LinesOfKind(log, kind) == { k \in DOMAIN log : log[k].kind = kind }

WorkerLines(log, i) ==
    { k \in DOMAIN log : log[k].kind \in {"worker", "empty"} /\ log[k].worker = i }

IsPercentileAt(log, k) == k \in DOMAIN log /\ log[k].kind = "percentile"

C27_Lines ==
    SummaryDone =>
        LET log   == fcall.out
            show  == fcall.in.showPercentiles
            ranks == << 50, 75, 95, 99, 100 >>
        IN  /\ \A i \in DOMAIN workers :
                 \E k \in DOMAIN log :
                    /\ WorkerLines(log, i) = {k}
                    /\ IF Held(i) = << >>
                       THEN log[k].kind = "empty" /\ ~IsPercentileAt(log, k + 1)
                       ELSE /\ log[k].kind = "worker"
                            /\ IF show
                               THEN /\ \A j \in 1..5 :
                                         /\ IsPercentileAt(log, k + j)
                                         /\ log[k + j].p = ranks[j]
                                         /\ log[k + j].value =
                                                CalculateOp(Weights(i), << ranks[j] >>)[ranks[j]]
                                    /\ ~IsPercentileAt(log, k + 6)
                               ELSE ~IsPercentileAt(log, k + 1)
            /\ Cardinality(LinesOfKind(log, "percentile"))
                   = IF show THEN 5 * Cardinality(NonEmpty) ELSE 0

C27_Passed ==
    (rpc = "report" /\ rpc' = "print") =>
        fcall'.in.showPercentiles = ~opts.noPercentiles

(* C27: percentile reporting is opt-out.  PrintSummary logs percentile     *)
(* lines for exactly the ranks 50, 75, 95, 99, 100, computed over the      *)
(* worker's item weights, for each worker with at least one item when      *)
(* showPercentiles is true, and no percentile line at all when it is       *)
(* false; a worker with no items gets the "0 test files" line and never    *)
(* percentiles.  runSplit passes showPercentiles = not --no-percentiles.   *)
C27_PercentilesOptOut == [](C27_Lines) /\ [][C27_Passed]_vars

C27_Witness ==
    /\ SummaryDone
    /\ rpc = "done"
    /\ fcall.in.showPercentiles
    /\ numWorkers = 3
    /\ Len(Held(0)) = 1
    /\ Len(Held(1)) = 2
    /\ Held(2) = << >>
    /\ Cardinality(LinesOfKind(fcall.out, "percentile")) = 10
    /\ Cardinality(LinesOfKind(fcall.out, "empty")) = 1

TotalSet == { workers[i].Total : i \in DOMAIN workers }

HeldWeights == UNION { WeightSet(i) : i \in DOMAIN workers }

Spread == MaxOf(TotalSet) - MinOf(TotalSet)

(* C28: balance bound of the greedy step.  When all weights are positive,  *)
(* after every assignment made by Distribute the difference between the    *)
(* largest and the smallest worker Total is at most the largest weight of  *)
(* any item assigned so far, whatever the order of the items.              *)
C28_BalanceBound ==
    (HeldWeights # {} /\ \A w \in HeldWeights : w > 0) =>
        Spread <= MaxOf(HeldWeights)

C28_Witness ==
    /\ pc = "distribute"
    /\ calls = 1
    /\ numWorkers = 3
    /\ tests = << T("a", 10), T("b", 20) >>
    /\ pos = 2
    /\ Spread = 20
    /\ MaxOf(HeldWeights) = 20

C30_TotalIsSum == \A i \in DOMAIN workers : workers[i].Total = SumTime(Held(i))

C30_OnlyReceiver ==
    DOMAIN workers' = DOMAIN workers =>
        \A i \in DOMAIN workers :
            workers'[i] # workers[i] =>
                /\ pc = "distribute"
                /\ pos' = pos + 1
                /\ workers'[i].Tests = Append(workers[i].Tests, tests[pos'])
                /\ workers'[i].Total = workers[i].Total + tests[pos'].Time
                /\ \A j \in DOMAIN workers \ {i} : workers'[j] = workers[j]

(* C30: load bookkeeping.  After any sequence of Distribute calls on one    *)
(* allocator (none, one or several, items accumulating across calls) every *)
(* worker's Total equals the sum of the Time of the items in its own item   *)
(* sequence, and a Distribute call changes only the item sequence and Total *)
(* of the workers it assigns to.                                            *)
C30_LoadBookkeeping == [](C30_TotalIsSum) /\ [][C30_OnlyReceiver]_vars

C30_Witness ==
    /\ calls = 2
    /\ AtReturn
    /\ numWorkers = 2
    /\ tests = << T("c", 10) >>
    /\ Held(0) = << T("a", 10), T("c", 10) >>
    /\ workers[0].Total = 20
    /\ Held(1) = << T("b", 20) >>
    /\ workers[1].Total = 20

----------------------------------------------------------------------------
(* The shards of one suite *)

(* runSplit has split the tests and the allocation is complete. *)
Allocated == rpc \in {"print", "done"}

(* What the invocation with --index i writes to stdout for this allocation *)
Shard(i) == Printed(Held(i))

RECURSIVE ShardCount(_, _)
ShardCount(name, n) ==
    IF n = 0 THEN 0 ELSE Count(name, Shard(n - 1)) + ShardCount(name, n - 1)

NamesOf(ts) == [k \in DOMAIN ts |-> ts[k].Name]

LineCount(name, lines) ==
    Cardinality({ k \in DOMAIN lines : NonBlank(lines[k]) /\ Stripped(lines[k]) = name })

NameSet(ts) == { ts[k].Name : k \in DOMAIN ts }

(* Every name is printed by the shards together as often as Split got it,  *)
(* and this invocation prints its own shard.                               *)
ShardsCover ==
    Allocated =>
        /\ numWorkers = nodeTotal
        /\ nodeIndex \in 0..(nodeTotal - 1)
        /\ \A name \in NameSet(splitTests) :
               ShardCount(name, nodeTotal) = Count(name, NamesOf(splitTests))
        /\ \A i \in 0..(nodeTotal - 1) :
               \A k \in DOMAIN Shard(i) : Shard(i)[k] \in NameSet(splitTests)
        /\ rpc = "done" => stdout = Shard(nodeIndex)

ShardsDisjoint ==
    \A i, j \in 0..(nodeTotal - 1) :
        i # j => \A k \in DOMAIN Shard(i) : Count(Shard(i)[k], Shard(j)) = 0

(* Split is given the non-blank trimmed input lines, each as often as it   *)
(* occurs in the input.                                                    *)
SplitGetsInput ==
    (rpc = "split" /\ rpc' = "report") =>
        LET lines == fcall.in.r.lines
        IN  /\ \A k \in DOMAIN lines :
                 NonBlank(lines[k]) => Stripped(lines[k]) \in NameSet(splitTests')
            /\ \A name \in NameSet(splitTests') :
                 Count(name, NamesOf(splitTests')) = LineCount(name, lines)

====
